---------------------------- MODULE Spec2Model ----------------------------
(***************************************************************************)
(* A state-machine model of the final Didact engine of                     *)
(* src/src/didact-demo.js (lines 1-349): createElement, the DOM adapter    *)
(* (createDom / updateDom), the fiber reconciler, the idle-time work loop, *)
(* the commit phase and the useState hook store.                           *)
(*                                                                         *)
(* JavaScript objects live in two arenas: `fibers' (a sequence of fiber    *)
(* records, a reference is an index, 0 is null) and `nodes' (the host DOM  *)
(* nodes, node 1 is the container).  Objects are never freed, as in the    *)
(* source, where abandoned fibers are left to the garbage collector.       *)
(***************************************************************************)
EXTENDS Integers, Sequences, FiniteSets, Bags, TLC

VARIABLES
  fibers,          \* arena of fiber objects
  nodes,           \* arena of host DOM nodes; nodes[1] is the container
  nextUnitOfWork,  \* didact-demo.js:154
  currentRoot,     \* didact-demo.js:155
  wipRoot,         \* didact-demo.js:156
  deletions,       \* didact-demo.js:157
  wipFiber,        \* didact-demo.js:218
  hookIndex,       \* didact-demo.js:219
  pc,              \* position of the workLoop callback: "idle" between turns
  shouldYield,     \* local of workLoop, didact-demo.js:164
  ops,             \* history: bag of host DOM operations since the last render trigger
  committedDom,    \* history: the live DOM as the last commit left it
  events,          \* number of render() calls and dispatched events so far
  abandoned,       \* history: the wip roots that were overwritten before they were committed
  invoked,         \* history: the actions handed to each setter since the last commit
  visited,         \* history: the fibers performUnitOfWork was called on since the last render trigger
  lastUseState,    \* history: how the last useState call from outside a component ended
  requested,       \* history: the element of the last render() call, until the next commit
  ceArgs,          \* arguments of the last createElement call of the element-model driver
  ceResult         \* its result

vars == <<fibers, nodes, nextUnitOfWork, currentRoot, wipRoot, deletions,
          wipFiber, hookIndex, pc, shouldYield, ops, committedDom, events,
          abandoned, invoked, visited, lastUseState, requested, ceArgs, ceResult>>

engineVars == <<fibers, nodes, nextUnitOfWork, currentRoot, wipRoot, deletions,
                wipFiber, hookIndex, pc, shouldYield, ops, committedDom, events,
                abandoned, invoked, visited, lastUseState, requested>>

histVars == <<abandoned, invoked, visited, lastUseState, requested>>

(***************************************************************************)
(* Bounds of the model.                                                    *)
(***************************************************************************)
MaxEvents == 3
MaxChildren == 2

Null == 0

(***************************************************************************)
(* JavaScript values.  A primitive is a record [t, s, n] (t is the result  *)
(* of typeof, except that null has t = "null"); an array is [t, items]; an *)
(* Element is [type, props].  Property keys are sequences of characters so *)
(* that key.startsWith("on") and toLowerCase().substring(2) are computed.  *)
(***************************************************************************)
Str(s) == [t |-> "string", s |-> s, n |-> 0]
Num(n) == [t |-> "number", s |-> "", n |-> n]
Bool(b) == [t |-> "boolean", s |-> "", n |-> IF b THEN 1 ELSE 0]
JsNull == [t |-> "null", s |-> "", n |-> 0]
Undefined == [t |-> "undefined", s |-> "", n |-> 0]
Arr(items) == [t |-> "array", items |-> items]

IsElement(v) == "props" \in DOMAIN v
IsArray(v) == "items" \in DOMAIN v

\* typeof v
TypeOf(v) ==
  IF IsElement(v) \/ IsArray(v) THEN "object"
  ELSE IF v.t = "null" THEN "object"
  ELSE v.t

kChildren == <<"c","h","i","l","d","r","e","n">>
kNodeValue == <<"n","o","d","e","V","a","l","u","e">>
kStyle == <<"s","t","y","l","e">>
kId == <<"i","d">>
kOnClick == <<"o","n","C","l","i","c","k">>

NoProps == [k \in {} |-> Undefined]

TEXT_ELEMENT == "TEXT_ELEMENT"

\* The function components of the program (didact-demo.js:334).
FunctionComponents == {"App"}

\* The type of the root fiber, which has no `type' field, and the absent effectTag.
NoType == "undefined"
NoTag == "undefined"

(***************************************************************************)
(* Element model, didact-demo.js:8-34.                                     *)
(***************************************************************************)
createTextElement(text) ==
  [type |-> TEXT_ELEMENT,
   props |-> [k \in {kNodeValue, kChildren} |->
                IF k = kNodeValue THEN text ELSE <<>>]]

createElement(type, props, children) ==
  [type |-> type,
   props |-> [k \in (DOMAIN props) \cup {kChildren} |->
                IF k = kChildren
                  THEN [i \in 1..Len(children) |->
                          IF TypeOf(children[i]) = "object"
                            THEN children[i]
                            ELSE createTextElement(children[i])]
                  ELSE props[k]]]

(***************************************************************************)
(* Host DOM.  A node is [tag, attrs, listeners, children, parent]; attrs   *)
(* maps a property key to the value last assigned to it and listeners is   *)
(* the set of registered [type, handler] pairs (the host ignores a second  *)
(* registration of the same pair).  Every operation the engine performs on *)
(* the host is also counted in the bag S.ops.                              *)
(***************************************************************************)
Op(kind, node, arg) == [op |-> kind, node |-> node, arg |-> arg]

\* F applied to the value of v.  The operators below thread the engine state
\* through long chains of calls; binding each intermediate state to its value
\* keeps TLC from evaluating a chain again at every place that reads it.
Let(v, F(_)) == CHOOSE r \in {F(x) : x \in {v}} : TRUE

RemoveAt(seq, x) == SelectSeq(seq, LAMBDA y : y # x)

\* document.createElement(tag) / document.createTextNode(""); ret is the new node
hostCreate(S, tag) ==
  [S EXCEPT !.ret = Len(S.nodes) + 1,
            !.ops = @ (+) SetToBag({Op("create", Len(S.nodes) + 1, <<>>)}),
            !.nodes = Append(@, [tag |-> tag, attrs |-> NoProps,
                                 listeners |-> {}, children |-> <<>>,
                                 parent |-> Null])]

\* parent.appendChild(child): a child that has a parent is first detached from it.
hostAppendChild(S, parent, child) ==
  [S EXCEPT !.nodes =
               LET old == @[child].parent
                   n1 == IF old = Null THEN @
                         ELSE [@ EXCEPT ![old].children = RemoveAt(@, child)]
               IN [n1 EXCEPT ![parent].children = Append(@, child),
                             ![child].parent = parent],
            !.ops = @ (+) SetToBag({Op("appendChild", child, <<>>)})]

\* parent.removeChild(child); the host throws when child is not a child of parent,
\* which leaves the tree as it is.
hostRemoveChild(S, parent, child) ==
  [S EXCEPT !.nodes =
               IF child # Null /\ @[child].parent = parent
                 THEN [@ EXCEPT ![parent].children = RemoveAt(@, child),
                                ![child].parent = Null]
                 ELSE @,
            !.ops = @ (+) SetToBag({Op("removeChild", child, <<>>)})]

\* dom[name] = values[name], for every name in the domain of values
hostSetProperties(S, d, values) ==
  [S EXCEPT !.nodes[d].attrs =
               [k \in (DOMAIN @) \cup (DOMAIN values) |->
                  IF k \in DOMAIN values THEN values[k] ELSE @[k]],
            !.ops = @ (+) SetToBag({Op("set", d, k) : k \in DOMAIN values})]

\* dom.addEventListener(l.type, l.handler), for every l of a set of listeners
hostAddEventListeners(S, d, listeners) ==
  [S EXCEPT !.nodes[d].listeners = @ \cup listeners,
            !.ops = @ (+) SetToBag({Op("addEventListener", d, l.type) : l \in listeners})]

\* dom.removeEventListener(l.type, l.handler), for every l of a set of listeners
hostRemoveEventListeners(S, d, listeners) ==
  [S EXCEPT !.nodes[d].listeners = @ \ listeners,
            !.ops = @ (+) SetToBag({Op("removeEventListener", d, l.type) : l \in listeners})]

(***************************************************************************)
(* DOM adapter, didact-demo.js:41-98.                                      *)
(***************************************************************************)
isEvent(key) == Len(key) >= 2 /\ key[1] = "o" /\ key[2] = "n"
isProperty(key) == key # kChildren /\ ~isEvent(key)
isNew(prev, next, key) ==
  \/ (key \in DOMAIN prev) # (key \in DOMAIN next)
  \/ key \in DOMAIN prev /\ key \in DOMAIN next /\ prev[key] # next[key]
isGone(prev, next, key) == key \notin DOMAIN next

LowerChar(c) ==
  CASE c = "C" -> "c" [] c = "I" -> "i" [] c = "V" -> "v" [] OTHER -> c

\* name.toLowerCase().substring(2)
eventTypeOf(name) == [i \in 1..(Len(name) - 2) |-> LowerChar(name[i + 2])]

\* lines 83-85: the properties that updateDom assigns
assignedKeysAll(prevProps, nextProps) ==
  {k \in DOMAIN nextProps : isProperty(k)}

assignedKeys(prevProps, nextProps) ==
  {k \in DOMAIN nextProps : isProperty(k) /\ isNew(prevProps, nextProps, k)}

\* lines 70-71 and 95-96: the listeners named by a set of event keys of props
listenersOf(props, keys) ==
  {[type |-> eventTypeOf(k), handler |-> props[k]] : k \in keys}

\* The four forEach passes of updateDom; the steps of one pass touch different
\* keys, so each pass is applied to its whole key set at once.
updateDom(S, d, prevProps, nextProps) ==
  hostAddEventListeners(
    hostSetProperties(
      hostSetProperties(
        hostRemoveEventListeners(S, d,
          listenersOf(prevProps,
            {k \in DOMAIN prevProps :
               isEvent(k) /\ (k \notin DOMAIN nextProps \/ isNew(prevProps, nextProps, k))})),
        d, [k \in {x \in DOMAIN prevProps :
                     isProperty(x) /\ isGone(prevProps, nextProps, x)} |-> Str("")]),
      d, [k \in assignedKeys(prevProps, nextProps) |-> nextProps[k]]),
    d, listenersOf(nextProps,
         {k \in DOMAIN nextProps : isEvent(k) /\ isNew(prevProps, nextProps, k)}))

\* ret is the new node
createDom(S, fiber) ==
  Let(hostCreate(S, IF S.fibers[fiber].type = TEXT_ELEMENT
                      THEN "#text" ELSE S.fibers[fiber].type),
      LAMBDA S1 : updateDom(S1, S1.ret, NoProps, S1.fibers[fiber].props))

(***************************************************************************)
(* Fibers.  A fiber is a record of the fields the engine gives it; child,  *)
(* sibling, parent, alternate and dom are references (0 for null or        *)
(* undefined).  domSets is a history field: the number of times the dom    *)
(* field of this fiber object received a DOM node.                         *)
(***************************************************************************)
Fiber(type, props, dom, parent, alternate, effectTag) ==
  [type |-> type, props |-> props, dom |-> dom, parent |-> parent,
   child |-> Null, sibling |-> Null, alternate |-> alternate,
   effectTag |-> effectTag, hooks |-> <<>>,
   domSets |-> IF dom = Null THEN 0 ELSE 1]

\* `element &&' of reconcileChildren: null and undefined are falsy
Truthy(v) == IsElement(v) \/ IsArray(v) \/ v.t \notin {"null", "undefined"}

\* Array.prototype.flat(): one level of nested arrays is spliced in
RECURSIVE flat(_)
flat(children) ==
  IF children = <<>> THEN <<>>
  ELSE (IF IsArray(Head(children)) THEN Head(children).items ELSE <<Head(children)>>)
         \o flat(Tail(children))

(***************************************************************************)
(* reconcileChildren, didact-demo.js:279-328.                              *)
(***************************************************************************)
\* line 288
sameTypeIgnoreType(fs, oldFiber, element) ==
  oldFiber # Null /\ Truthy(element)

sameType(fs, oldFiber, element) ==
  oldFiber # Null /\ Truthy(element) /\ element.type = fs[oldFiber].type

\* lines 291-298
updateFiberFreshDom(fs, oldFiber, element, parent) ==
  Fiber(fs[oldFiber].type, element.props, Null, parent, oldFiber, "UPDATE")

updateFiber(fs, oldFiber, element, parent) ==
  Fiber(fs[oldFiber].type, element.props, fs[oldFiber].dom, parent, oldFiber, "UPDATE")

\* lines 301-308
placementFiber(element, parent) ==
  Fiber(element.type, element.props, Null, parent, Null, "PLACEMENT")

\* One iteration of the while loop of lines 284-327 on state S
reconcileStep(S, wf, element, index, oldFiber, prevSibling) ==
  LET same == sameType(S.fibers, oldFiber, element)
      newFiber == IF same \/ Truthy(element) THEN Len(S.fibers) + 1 ELSE Null
      deleted == oldFiber # Null /\ ~same
      f1 == IF same
              THEN Append(S.fibers, updateFiber(S.fibers, oldFiber, element, wf))
            ELSE IF Truthy(element)
              THEN Append(S.fibers, placementFiber(element, wf))
            ELSE S.fibers
      f2 == IF deleted THEN [f1 EXCEPT ![oldFiber].effectTag = "DELETION"] ELSE f1
      f3 == IF index = 0 THEN [f2 EXCEPT ![wf].child = newFiber]
            ELSE IF Truthy(element) THEN [f2 EXCEPT ![prevSibling].sibling = newFiber]
            ELSE f2
  IN [S EXCEPT !.fibers = f3,
               !.deletions = IF deleted THEN Append(@, oldFiber) ELSE @,
               !.ret = newFiber]

\* The while loop of lines 284-327; index counts from 0
RECURSIVE reconcileLoop(_, _, _, _, _, _)
reconcileLoop(S0, wf, elements, index, oldFiber, prevSibling) ==
  Let(S0, LAMBDA S :
    IF ~(index < Len(elements) \/ oldFiber # Null) THEN S
    ELSE reconcileLoop(
           reconcileStep(S, wf,
                         IF index < Len(elements) THEN elements[index + 1] ELSE Undefined,
                         index, oldFiber, prevSibling),
           wf, elements, index + 1,
           IF oldFiber # Null THEN S.fibers[oldFiber].sibling ELSE Null,
           IF index < Len(elements) /\ Truthy(elements[index + 1])
             THEN Len(S.fibers) + 1 ELSE Null))

reconcileChildren(S0, wf, elements) ==
  Let(S0, LAMBDA S :
    reconcileLoop(S, wf, elements, 0,
                  IF S.fibers[wf].alternate # Null
                    THEN S.fibers[S.fibers[wf].alternate].child ELSE Null,
                  Null))

(***************************************************************************)
(* State hook store, didact-demo.js:238-277.  An action is the update      *)
(* function handed to the setter; the program has one, (c) => c + 1        *)
(* (line 336).  A setter is identified by the hook object its closure      *)
(* holds: hook number `hook' of fiber object `fiber'.                      *)
(***************************************************************************)
ApplyAction(action, state) ==
  CASE action = "inc" -> Num(state.n + 1)

RECURSIVE replay(_, _)
replay(actions, state) ==
  IF actions = <<>> THEN state
  ELSE replay(Tail(actions), ApplyAction(Head(actions), state))

\* lines 240-243; hookIndex counts from 0
hasOldHook(S) ==
  /\ S.fibers[S.wipFiber].alternate # Null
  /\ S.hookIndex < Len(S.fibers[S.fibers[S.wipFiber].alternate].hooks)

oldHookOf(S) == S.fibers[S.fibers[S.wipFiber].alternate].hooks[S.hookIndex + 1]

\* lines 246-255
resolveHookIgnoreOld(S, initial) ==
  [state |-> replay(IF hasOldHook(S) THEN oldHookOf(S).queue ELSE <<>>, initial),
   queue |-> <<>>]

resolveHookDropQueue(S, initial) ==
  [state |-> IF hasOldHook(S) THEN oldHookOf(S).state ELSE initial,
   queue |-> <<>>]

resolveHook(S, initial) ==
  [state |-> replay(IF hasOldHook(S) THEN oldHookOf(S).queue ELSE <<>>,
                    IF hasOldHook(S) THEN oldHookOf(S).state ELSE initial),
   queue |-> <<>>]

\* ret is the pair [state, setState]
useState(S0, initial) ==
  Let(S0, LAMBDA S :
    [S EXCEPT !.fibers[S.wipFiber].hooks = Append(@, resolveHook(S, initial)),
              !.hookIndex = @ + 1,
              !.ret = [state |-> resolveHook(S, initial).state,
                       setState |-> [fiber |-> S.wipFiber,
                                     hook |-> Len(S.fibers[S.wipFiber].hooks) + 1]]])

\* lines 261-271; the history variable ops restarts with the render it triggers
setStateInPlace(S0, setter, action) ==
  Let(S0, LAMBDA S :
    [S EXCEPT !.fibers[setter.fiber].hooks[setter.hook].queue = Append(@, action),
              !.wipRoot = S.currentRoot,
              !.nextUnitOfWork = S.currentRoot,
              !.deletions = <<>>,
              !.ops = EmptyBag])

setStateKeepDeletions(S0, setter, action) ==
  Let(S0, LAMBDA S :
    [S EXCEPT !.fibers =
                 Append([@ EXCEPT ![setter.fiber].hooks[setter.hook].queue =
                                      Append(@, action)],
                        Fiber(NoType, @[S.currentRoot].props, @[S.currentRoot].dom,
                              Null, S.currentRoot, NoTag)),
              !.wipRoot = Len(S.fibers) + 1,
              !.nextUnitOfWork = Len(S.fibers) + 1,
              !.ops = EmptyBag])

setState(S0, setter, action) ==
  Let(S0, LAMBDA S :
    [S EXCEPT !.fibers =
                 Append([@ EXCEPT ![setter.fiber].hooks[setter.hook].queue =
                                      Append(@, action)],
                        Fiber(NoType, @[S.currentRoot].props, @[S.currentRoot].dom,
                              Null, S.currentRoot, NoTag)),
              !.wipRoot = Len(S.fibers) + 1,
              !.nextUnitOfWork = Len(S.fibers) + 1,
              !.deletions = <<>>,
              !.ops = EmptyBag])

(***************************************************************************)
(* The program's component, didact-demo.js:334-337.  The onClick handler   *)
(* is a closure created by this call; it is identified with the setter it  *)
(* invokes.  ret is the element returned.                                  *)
(***************************************************************************)
InitialCount == 1

App(S, props) ==
  Let(useState(S, Num(InitialCount)), LAMBDA U :
    [U EXCEPT !.ret =
       createElement("h1", [k \in {kOnClick} |-> U.ret.setState],
                     <<Str("Count: "), U.ret.state>>)])

\* fiber.type(fiber.props), line 229
callComponent(S, type, props) ==
  CASE type = "App" -> App(S, props)

(***************************************************************************)
(* Work scheduler, didact-demo.js:186-231.                                 *)
(***************************************************************************)
updateFunctionComponent(S, fiber) ==
  Let(callComponent([S EXCEPT !.wipFiber = fiber, !.hookIndex = 0,
                              !.fibers[fiber].hooks = <<>>],
                    S.fibers[fiber].type, S.fibers[fiber].props),
      LAMBDA S2 : reconcileChildren(S2, fiber, <<S2.ret>>))

\* lines 209-211
needsDom(S, fiber) == S.fibers[fiber].dom = Null

updateHostComponent(S0, fiber) ==
  Let(S0, LAMBDA S :
    Let(IF needsDom(S, fiber)
          THEN Let(createDom(S, fiber), LAMBDA C :
                 [C EXCEPT !.fibers[fiber].dom = C.ret,
                           !.fibers[fiber].domSets = @ + 1])
          ELSE S,
        LAMBDA S1 : reconcileChildren(S1, fiber, flat(S1.fibers[fiber].props[kChildren]))))

\* lines 198-204
RECURSIVE nextSibling(_, _)
nextSibling(fs, nextFiber) ==
  IF nextFiber = Null THEN Null
  ELSE IF fs[nextFiber].sibling # Null THEN fs[nextFiber].sibling
  ELSE nextSibling(fs, fs[nextFiber].parent)

\* lines 187-192
updateFiberOf(S, fiber) ==
  IF S.fibers[fiber].type \in FunctionComponents
    THEN updateFunctionComponent(S, fiber)
    ELSE updateHostComponent(S, fiber)

\* lines 195-204
nextUnitOfSiblingFirst(S, fiber) ==
  [S EXCEPT !.ret = IF S.fibers[fiber].sibling # Null
                      THEN S.fibers[fiber].sibling
                    ELSE IF S.fibers[fiber].child # Null
                      THEN S.fibers[fiber].child
                      ELSE nextSibling(S.fibers, fiber)]

nextUnitOf(S, fiber) ==
  [S EXCEPT !.ret = IF S.fibers[fiber].child # Null
                      THEN S.fibers[fiber].child
                      ELSE nextSibling(S.fibers, fiber)]

\* The engine before the commit phase was introduced (didact-demo.js:759-761):
\* the node is attached while the fiber is processed
performUnitOfWorkAttaching(S0, fiber) ==
  Let(S0, LAMBDA S :
    Let(updateFiberOf(S, fiber), LAMBDA S1 :
      nextUnitOf(IF /\ S1.fibers[fiber].parent # Null
                    /\ S1.fibers[fiber].dom # Null
                    /\ S1.fibers[S1.fibers[fiber].parent].dom # Null
                   THEN hostAppendChild(S1, S1.fibers[S1.fibers[fiber].parent].dom,
                                        S1.fibers[fiber].dom)
                   ELSE S1,
                 fiber)))

\* ret is the next unit of work
performUnitOfWork(S0, fiber) ==
  Let(S0, LAMBDA S :
    Let(updateFiberOf(S, fiber), LAMBDA S1 : nextUnitOf(S1, fiber)))

(***************************************************************************)
(* Commit phase, didact-demo.js:102-135.                                   *)
(***************************************************************************)
\* lines 119-122
RECURSIVE domParentFiberRoot(_, _)
domParentFiberRoot(fs, f) ==
  IF fs[f].parent = Null THEN f ELSE domParentFiberRoot(fs, fs[f].parent)

RECURSIVE domParentFiber(_, _)
domParentFiber(fs, f) ==
  IF fs[f].dom # Null THEN f ELSE domParentFiber(fs, fs[f].parent)

\* lines 126-132
commitEffect(S, fiber, domParent) ==
  IF S.fibers[fiber].effectTag = "PLACEMENT" /\ S.fibers[fiber].dom # Null
    THEN hostAppendChild(S, domParent, S.fibers[fiber].dom)
  ELSE IF S.fibers[fiber].effectTag = "UPDATE" /\ S.fibers[fiber].dom # Null
    THEN updateDom(S, S.fibers[fiber].dom,
                   S.fibers[S.fibers[fiber].alternate].props, S.fibers[fiber].props)
  ELSE IF S.fibers[fiber].effectTag = "DELETION"
    THEN hostRemoveChild(S, domParent, S.fibers[fiber].dom)
  ELSE S

RECURSIVE commitWork(_, _)
commitWork(S0, fiber) ==
  IF fiber = Null THEN S0
  ELSE
    Let(S0, LAMBDA S :
      Let(commitEffect(S, fiber,
                       S.fibers[domParentFiber(S.fibers, S.fibers[fiber].parent)].dom),
          LAMBDA S1 :
            Let(commitWork(S1, S1.fibers[fiber].child),
                LAMBDA S2 : commitWork(S2, S2.fibers[fiber].sibling))))

commitRootKeepWip(S0) ==
  Let(S0, LAMBDA S :
    [commitWork(S, S.fibers[S.wipRoot].child) EXCEPT !.currentRoot = S.wipRoot])

commitRoot(S0) ==
  Let(S0, LAMBDA S :
    [commitWork(S, S.fibers[S.wipRoot].child) EXCEPT
       !.currentRoot = S.wipRoot, !.wipRoot = Null])

(***************************************************************************)
(* render, didact-demo.js:142-152; the history variable ops restarts with  *)
(* the render.                                                             *)
(***************************************************************************)
renderKeepCursor(S0, element, container) ==
  Let(S0, LAMBDA S :
    [S EXCEPT !.fibers = Append(@, Fiber(NoType, [k \in {kChildren} |-> <<element>>],
                                        container, Null, S.currentRoot, NoTag)),
              !.wipRoot = Len(S.fibers) + 1,
              !.deletions = <<>>,
              !.nextUnitOfWork = IF @ # Null THEN @ ELSE Len(S.fibers) + 1,
              !.ops = EmptyBag])

render(S0, element, container) ==
  Let(S0, LAMBDA S :
    [S EXCEPT !.fibers = Append(@, Fiber(NoType, [k \in {kChildren} |-> <<element>>],
                                        container, Null, S.currentRoot, NoTag)),
              !.wipRoot = Len(S.fibers) + 1,
              !.deletions = <<>>,
              !.nextUnitOfWork = Len(S.fibers) + 1,
              !.ops = EmptyBag])

(***************************************************************************)
(* The element trees handed to render.  ElemApp is the program's tree      *)
(* (didact-demo.js:340-344); the others are the tree of the earlier engine *)
(* (lines 806-811) and two variants of it, with one child removed and with *)
(* the type of the first child changed.  JSX compiles to createElement.    *)
(***************************************************************************)
ElemApp == createElement("div", NoProps, <<createElement("App", NoProps, <<>>)>>)

ElemHello ==
  createElement("div", [k \in {kStyle} |-> Str("background: salmon")],
    <<createElement("h1", NoProps, <<Str("Hello World")>>),
      createElement("h2", [k \in {kStyle} |-> Str("text-align:right")], <<>>)>>)

ElemOne ==
  createElement("div", NoProps,
    <<createElement("h1", NoProps, <<Str("Hello World")>>)>>)

ElemPara ==
  createElement("div", NoProps,
    <<createElement("p", NoProps, <<>>)>>)

Elements == {ElemApp, ElemHello, ElemOne, ElemPara}

\* document.getElementById("didact-root"), line 348
Container == 1

(***************************************************************************)
(* The live DOM: the nodes attached, through their parents, to the         *)
(* container.                                                              *)
(***************************************************************************)
RECURSIVE IsLive(_, _)
IsLive(ns, n) ==
  IF n = Container THEN TRUE
  ELSE IF ns[n].parent = Null THEN FALSE
  ELSE IsLive(ns, ns[n].parent)

LiveNodes(ns) == {n \in 1..Len(ns) : IsLive(ns, n)}

LiveDom(ns) == [n \in LiveNodes(ns) |-> ns[n]]

(***************************************************************************)
(* The engine state as one record, for the operators above.                *)
(***************************************************************************)
Pack ==
  [fibers |-> fibers, nodes |-> nodes, nextUnitOfWork |-> nextUnitOfWork,
   currentRoot |-> currentRoot, wipRoot |-> wipRoot, deletions |-> deletions,
   wipFiber |-> wipFiber, hookIndex |-> hookIndex, ops |-> ops, ret |-> Null]

Install(S) ==
  /\ fibers' = S.fibers
  /\ nodes' = S.nodes
  /\ nextUnitOfWork' = S.nextUnitOfWork
  /\ currentRoot' = S.currentRoot
  /\ wipRoot' = S.wipRoot
  /\ deletions' = S.deletions
  /\ wipFiber' = S.wipFiber
  /\ hookIndex' = S.hookIndex
  /\ ops' = S.ops

ContainerNode ==
  [tag |-> "div", attrs |-> NoProps, listeners |-> {}, children |-> <<>>,
   parent |-> Null]

Init ==
  /\ fibers = <<>>
  /\ nodes = <<ContainerNode>>
  /\ nextUnitOfWork = Null
  /\ currentRoot = Null
  /\ wipRoot = Null
  /\ deletions = <<>>
  /\ wipFiber = Null
  /\ hookIndex = 0
  /\ pc = "idle"
  /\ shouldYield = FALSE
  /\ ops = EmptyBag
  /\ committedDom = LiveDom(<<ContainerNode>>)
  /\ events = 0
  /\ abandoned = {}
  /\ invoked = <<>>
  /\ visited = <<>>
  /\ lastUseState = "none"
  /\ requested = <<>>
  /\ ceArgs = [type |-> "div", props |-> NoProps, children |-> <<>>]
  /\ ceResult = createElement("div", NoProps, <<>>)

(***************************************************************************)
(* Actions of the engine.  The work loop is an idle callback that runs to  *)
(* completion: render calls and events happen only between its turns       *)
(* (pc = "idle").                                                          *)
(***************************************************************************)
\* Didact.render(element, container), line 349
Render(element) ==
  /\ pc = "idle"
  /\ events < MaxEvents
  /\ \E S \in {render(Pack, element, Container)} : Install(S)
  /\ events' = events + 1
  /\ abandoned' = abandoned \cup ({wipRoot} \ {Null})
  /\ visited' = <<>>
  /\ requested' = <<element>>
  /\ UNCHANGED <<pc, shouldYield, committedDom, invoked, lastUseState, ceArgs, ceResult>>

\* The handler of line 336: () => setState((c) => c + 1)
invokeHandler(S, handler) == setState(S, handler, "inc")

RECURSIVE invokeAll(_, _)
invokeAll(S, handlers) ==
  IF handlers = {} THEN S
  ELSE LET h == CHOOSE x \in handlers : TRUE
       IN invokeAll(invokeHandler(S, h), handlers \ {h})

EventTypes == {eventTypeOf(kOnClick)}

\* The handlers of the listeners registered on node n for events of a type
handlersOf(n, type) == {l.handler : l \in {x \in nodes[n].listeners : x.type = type}}

\* The host dispatches an event of some type on a node of the live DOM and
\* calls the listeners registered on it for that type.
DispatchOn(n, type) ==
  /\ pc = "idle"
  /\ events < MaxEvents
  /\ n \in LiveNodes(nodes)
  /\ \E l \in nodes[n].listeners : l.type = type
  /\ \E S \in {invokeAll(Pack, handlersOf(n, type))} :
        /\ Install(S)
        /\ abandoned' = (abandoned \cup {wipRoot} \cup (Len(fibers) + 1 .. Len(S.fibers)))
                           \ {Null, S.wipRoot}
  /\ events' = events + 1
  /\ invoked' = [h \in (DOMAIN invoked) \cup handlersOf(n, type) |->
                   (IF h \in DOMAIN invoked THEN invoked[h] ELSE <<>>)
                     \o (IF h \in handlersOf(n, type) THEN <<"inc">> ELSE <<>>)]
  /\ visited' = <<>>
  /\ UNCHANGED <<pc, shouldYield, committedDom, lastUseState, requested,
                 ceArgs, ceResult>>

Dispatch == \E n \in 1..Len(nodes) : \E t \in EventTypes : DispatchOn(n, t)

\* line 167
continueLoopIgnoreYield(nuw, yield) == nuw # Null

continueLoop(nuw, yield) == nuw # Null /\ ~yield

\* line 173
shouldCommitEarly(nuw, root) == root # Null

shouldCommit(nuw, root) == nuw = Null /\ root # Null

\* The host calls workLoop(deadline), lines 163-164
WorkLoopStart ==
  /\ pc = "idle"
  /\ pc' = "loop"
  /\ shouldYield' = FALSE
  /\ UNCHANGED <<fibers, nodes, nextUnitOfWork, currentRoot, wipRoot, deletions,
                 wipFiber, hookIndex, ops, committedDom, events, histVars,
                 ceArgs, ceResult>>

\* One iteration of the while loop, lines 167-170; yield is what
\* deadline.timeRemaining() < 1 gives
PerformUnit(yield) ==
  /\ pc = "loop"
  /\ continueLoop(nextUnitOfWork, shouldYield)
  /\ \E S \in {performUnitOfWork(Pack, nextUnitOfWork)} :
        Install([S EXCEPT !.nextUnitOfWork = S.ret])
  /\ shouldYield' = yield
  /\ visited' = Append(visited, nextUnitOfWork)
  /\ UNCHANGED <<pc, committedDom, events, abandoned, invoked, lastUseState,
                 requested, ceArgs, ceResult>>

\* The end of the turn, lines 173-176
WorkLoopEnd ==
  /\ pc = "loop"
  /\ ~continueLoop(nextUnitOfWork, shouldYield)
  /\ IF shouldCommit(nextUnitOfWork, wipRoot)
       THEN /\ \E S \in {commitRoot(Pack)} :
                 Install(S) /\ committedDom' = LiveDom(S.nodes)
            /\ invoked' = <<>>
            /\ requested' = <<>>
       ELSE UNCHANGED <<fibers, nodes, nextUnitOfWork, currentRoot, wipRoot,
                        deletions, wipFiber, hookIndex, ops, committedDom, invoked,
                        requested>>
  /\ pc' = "idle"
  /\ UNCHANGED <<shouldYield, events, abandoned, visited, lastUseState,
                 ceArgs, ceResult>>

Next ==
  \/ \E e \in Elements : Render(e)
  \/ Dispatch
  \/ WorkLoopStart
  \/ \E y \in BOOLEAN : PerformUnit(y)
  \/ WorkLoopEnd

Spec == Init /\ [][Next]_vars

\* requestIdleCallback keeps calling workLoop, and a turn runs to its end
FairSpec ==
  Spec /\ WF_vars(WorkLoopStart) /\ WF_vars(\E y \in BOOLEAN : PerformUnit(y))
       /\ WF_vars(WorkLoopEnd)

(***************************************************************************)
(* Driver of the element model: createElement applied to bounded           *)
(* arguments.                                                              *)
(***************************************************************************)
ChildValues ==
  {Str("a"), Num(1), Bool(TRUE), JsNull, Undefined,
   createTextElement(Str("t")), createElement("b", NoProps, <<>>),
   Arr(<<createElement("i", NoProps, <<>>)>>)}

RECURSIVE SeqsUpTo(_, _)
SeqsUpTo(S, n) ==
  IF n = 0 THEN {<<>>}
  ELSE LET shorter == SeqsUpTo(S, n - 1)
       IN shorter \cup {Append(q, x) : q \in shorter, x \in S}

PropValues == {NoProps, [k \in {kId} |-> Str("foo")]}

CallCreateElement(type, props, children) ==
  /\ ceArgs' = [type |-> type, props |-> props, children |-> children]
  /\ ceResult' = createElement(type, props, children)
  /\ UNCHANGED engineVars

NextElement ==
  \E type \in {"div", "App"}, props \in PropValues,
     children \in SeqsUpTo(ChildValues, MaxChildren) :
       CallCreateElement(type, props, children)

SpecElement == Init /\ [][NextElement]_vars

(***************************************************************************)
(* Driver of the hook store: the application calls Didact.useState from    *)
(* outside a component, between two turns of the work loop.  Line 241      *)
(* reads wipFiber.alternate, which throws a TypeError while wipFiber is    *)
(* null; updateFunctionComponent (line 226) sets wipFiber and nothing      *)
(* sets it back.                                                           *)
(***************************************************************************)
StrayUseState ==
  /\ pc = "idle"
  /\ events < MaxEvents
  /\ IF wipFiber = Null
       THEN /\ lastUseState' = "fault"
            /\ UNCHANGED <<fibers, nodes, nextUnitOfWork, currentRoot, wipRoot,
                           deletions, wipFiber, hookIndex, ops>>
       ELSE /\ lastUseState' = "returned"
            /\ \E S \in {useState(Pack, Num(InitialCount))} : Install(S)
  /\ events' = events + 1
  /\ UNCHANGED <<pc, shouldYield, committedDom, abandoned, invoked, visited,
                 requested, ceArgs, ceResult>>

NextStray == Next \/ StrayUseState

SpecStray == Init /\ [][NextStray]_vars


(***************************************************************************)
(* Vocabulary of the properties.                                           *)
(***************************************************************************)
\* The fibers of the tree rooted at f
RECURSIVE Tree(_, _)
Tree(fs, f) ==
  IF f = Null THEN {}
  ELSE {f} \cup Tree(fs, fs[f].child) \cup Tree(fs, fs[f].sibling)

\* The sibling chain that starts at fiber c
RECURSIVE Chain(_, _)
Chain(fs, c) == IF c = Null THEN <<>> ELSE <<c>> \o Chain(fs, fs[c].sibling)

ChildSeq(fs, p) == Chain(fs, fs[p].child)

\* The nearest descendants of a sibling chain that own a DOM node, in order
RECURSIVE HostSeq(_, _)
HostSeq(fs, c) ==
  IF c = Null THEN <<>>
  ELSE (IF fs[c].dom # Null THEN <<c>> ELSE HostSeq(fs, fs[c].child))
         \o HostSeq(fs, fs[c].sibling)

IsHostType(type) == type \notin FunctionComponents /\ type # NoType

Min(a, b) == IF a < b THEN a ELSE b

\* A render has been committed and no later one is pending
Committed == pc = "idle" /\ wipRoot = Null /\ currentRoot # Null

Idle == wipRoot = Null /\ nextUnitOfWork = Null

Count(kind, node) == CopiesIn(Op(kind, node, <<>>), ops)

OpsOfKind(kinds) == {o \in BagToSet(ops) : o.op \in kinds}

(***************************************************************************)
(* C1.  commitRoot runs only when nextUnitOfWork is null and wipRoot is    *)
(* non-null; the live DOM changes in no other step, and as long as a wip   *)
(* root is pending the live DOM is the DOM the last commit left.           *)
(***************************************************************************)
C1_CommitOnlyWhenComplete ==
  [][ /\ currentRoot' # currentRoot =>
           nextUnitOfWork = Null /\ wipRoot # Null /\ currentRoot' = wipRoot
      /\ LiveDom(nodes') # LiveDom(nodes) => currentRoot' # currentRoot
      /\ wipRoot' # Null => LiveDom(nodes') = committedDom' ]_vars

\* A second render is half done: fibers of the wip tree are unprocessed and
\* DOM nodes created for it exist outside the live DOM
C1_Witness ==
  /\ currentRoot # Null
  /\ wipRoot # Null
  /\ nextUnitOfWork \notin {Null, wipRoot}
  /\ \E n \in 1..Len(nodes) : ~IsLive(nodes, n) /\ Count("create", n) = 1

(***************************************************************************)
(* C2.  A committed App fiber that was re-rendered k times, each time      *)
(* after exactly one invocation of the setter of the render before it,     *)
(* holds one hook whose state is initial + k.                              *)
(***************************************************************************)
RECURSIVE Alternates(_, _)
Alternates(fs, f) ==
  IF fs[f].alternate = Null THEN <<>>
  ELSE <<fs[f].alternate>> \o Alternates(fs, fs[f].alternate)

OneActionPerRender(fs, f) ==
  \A i \in 1..Len(Alternates(fs, f)) :
     LET a == fs[Alternates(fs, f)[i]]
     IN Len(a.hooks) = 1 /\ Len(a.hooks[1].queue) = 1

C2_CounterCounts ==
  \A f \in Tree(fibers, currentRoot) :
     (fibers[f].type = "App" /\ OneActionPerRender(fibers, f)) =>
        /\ Len(fibers[f].hooks) = 1
        /\ fibers[f].hooks[1].state = Num(InitialCount + Len(Alternates(fibers, f)))

\* The counter after two clicks, each followed by a commit
C2_Witness ==
  /\ Committed
  /\ \E f \in Tree(fibers, currentRoot) :
        /\ fibers[f].type = "App"
        /\ OneActionPerRender(fibers, f)
        /\ Len(Alternates(fibers, f)) = 2
        /\ fibers[f].hooks[1].state = Num(InitialCount + 2)

(***************************************************************************)
(* C3.  After a commit, the node of every old fiber that lost its place    *)
(* (the fibers collected in deletions) has been removed exactly once, and  *)
(* no node of an old fiber that kept its place has been removed.           *)
(***************************************************************************)
C3_DeletionCompleteness ==
  (Committed /\ fibers[currentRoot].alternate # Null) =>
     /\ \A i \in 1..Len(deletions) :
           fibers[deletions[i]].dom # Null =>
              Count("removeChild", fibers[deletions[i]].dom) = 1
     /\ \A o \in Tree(fibers, fibers[currentRoot].alternate) :
           (fibers[o].dom # Null /\ \A i \in 1..Len(deletions) : deletions[i] # o) =>
              Count("removeChild", fibers[o].dom) = 0

(***************************************************************************)
(* C4.  A host fiber at position P of a parent whose alternate has a fiber *)
(* of the same type at position P carries that fiber's DOM node, which was *)
(* given to it once, at construction; once committed the node is attached  *)
(* under the DOM node of the parent.  No fiber is given a DOM node twice.  *)
(***************************************************************************)
C4_DomReuse ==
  /\ \A f \in 1..Len(fibers) : fibers[f].domSets <= 1
  /\ \A p \in 1..Len(fibers) :
        fibers[p].alternate # Null =>
          LET cs == ChildSeq(fibers, p)
              os == ChildSeq(fibers, fibers[p].alternate)
          IN \A i \in 1..Min(Len(cs), Len(os)) :
                (fibers[cs[i]].type = fibers[os[i]].type /\ IsHostType(fibers[cs[i]].type)) =>
                   /\ fibers[os[i]].dom # Null
                   /\ fibers[cs[i]].dom = fibers[os[i]].dom
                   /\ Count("create", fibers[cs[i]].dom) = 0
                   /\ cs[i] \in Tree(fibers, currentRoot) =>
                        nodes[fibers[cs[i]].dom].parent =
                          fibers[domParentFiber(fibers, p)].dom

\* A committed host fiber that reuses the node of the fiber it replaces
C4_Witness ==
  /\ Committed
  /\ \E f \in Tree(fibers, currentRoot) :
        /\ fibers[f].effectTag = "UPDATE"
        /\ IsHostType(fibers[f].type)
        /\ fibers[f].dom = fibers[fibers[f].alternate].dom
        /\ IsLive(nodes, fibers[f].dom)

(***************************************************************************)
(* C5.  After a commit, where the type of a host fiber at position P       *)
(* differs from the type of the old host fiber at position P, a newly      *)
(* created node is attached under the parent's node and the old node is    *)
(* no longer a child of it.                                                *)
(***************************************************************************)
C5_TypeChangeReplaces ==
  Committed =>
    \A p \in Tree(fibers, currentRoot) :
       fibers[p].alternate # Null =>
         LET cs == ChildSeq(fibers, p)
             os == ChildSeq(fibers, fibers[p].alternate)
             parentDom == fibers[domParentFiber(fibers, p)].dom
         IN \A i \in 1..Min(Len(cs), Len(os)) :
               (/\ IsHostType(fibers[cs[i]].type) /\ IsHostType(fibers[os[i]].type)
                /\ fibers[cs[i]].type # fibers[os[i]].type) =>
                  /\ Count("create", fibers[cs[i]].dom) = 1
                  /\ nodes[fibers[cs[i]].dom].parent = parentDom
                  /\ nodes[fibers[os[i]].dom].parent # parentDom

(***************************************************************************)
(* C6.  After a commit the live DOM mirrors the element tree: the fibers   *)
(* below a host fiber are its element's children, the children of its node *)
(* are exactly the nodes of those fibers in order, and the node carries    *)
(* the tag and exactly the plain properties of the element.                *)
(***************************************************************************)
PlainKeys(props) == {k \in DOMAIN props : isProperty(k)}

NodeMirrors(f) ==
  LET n == nodes[fibers[f].dom]
      hs == HostSeq(fibers, fibers[f].child)
  IN /\ n.children = [i \in 1..Len(hs) |-> fibers[hs[i]].dom]
     /\ f # currentRoot =>
          /\ n.tag = (IF fibers[f].type = TEXT_ELEMENT THEN "#text" ELSE fibers[f].type)
          /\ \A k \in PlainKeys(fibers[f].props) : 
                k \in DOMAIN n.attrs /\ n.attrs[k] = fibers[f].props[k]
          /\ \A k \in DOMAIN n.attrs :
                k \in PlainKeys(fibers[f].props) \/ n.attrs[k] = Str("")
          /\ LET es == flat(fibers[f].props[kChildren])
                 cs == ChildSeq(fibers, f)
             IN /\ Len(cs) = Len(es)
                /\ \A i \in 1..Len(cs) :
                      fibers[cs[i]].type = es[i].type /\ fibers[cs[i]].props = es[i].props

C6_StructuralEquivalence ==
  Committed =>
    \A f \in Tree(fibers, currentRoot) : fibers[f].dom # Null => NodeMirrors(f)

(***************************************************************************)
(* C7.  A commit of the same element tree as the commit before it, with no *)
(* action queued in between, has created, appended and removed no node and *)
(* assigned no property.  As first stated, every fiber of the second tree  *)
(* is tagged UPDATE; as amended, every fiber below its root is.            *)
(***************************************************************************)
SameTreeAgain ==
  /\ Committed
  /\ fibers[currentRoot].alternate # Null
  /\ fibers[currentRoot].props = fibers[fibers[currentRoot].alternate].props
  /\ \A a \in Tree(fibers, fibers[currentRoot].alternate) :
        \A h \in 1..Len(fibers[a].hooks) : fibers[a].hooks[h].queue = <<>>

NoDomMutation == OpsOfKind({"create", "appendChild", "removeChild", "set"}) = {}

C7_IdempotentAllUpdate ==
  SameTreeAgain =>
     /\ \A f \in Tree(fibers, currentRoot) : fibers[f].effectTag = "UPDATE"
     /\ NoDomMutation

C7_IdempotentBelowRoot ==
  SameTreeAgain =>
     /\ \A f \in Tree(fibers, currentRoot) \ {currentRoot} : fibers[f].effectTag = "UPDATE"
     /\ NoDomMutation

\* The tree with a styled node has been committed twice in a row
C7_Witness ==
  /\ SameTreeAgain
  /\ \E f \in Tree(fibers, currentRoot) : kStyle \in DOMAIN fibers[f].props

(***************************************************************************)
(* C8.  With idle callbacks delivered fairly, whatever the deadline says,  *)
(* the engine is idle again and again, so a render that is not superseded  *)
(* is committed; the step that clears wipRoot makes it currentRoot with    *)
(* the cursor null, and an idle engine stays idle until the next trigger.  *)
(***************************************************************************)
C8_EventuallyCommitted ==
  /\ []<>Idle
  /\ [][(wipRoot # Null /\ wipRoot' = Null) =>
           (currentRoot' = wipRoot /\ nextUnitOfWork' = Null)]_vars
  /\ [][(Idle /\ events' = events) => Idle']_vars

\* A render has been committed and the engine is idle
C8_Witness == Idle /\ currentRoot # Null /\ pc = "idle" /\ events >= 1

(***************************************************************************)
(* C9.  createElement returns one child per argument, in order: a child    *)
(* that is an Element is kept, and a string, number, boolean, null or      *)
(* undefined is replaced by a text Element holding it as nodeValue.        *)
(***************************************************************************)
IsPrimitive(v) == ~IsElement(v) /\ ~IsArray(v)

C9_ChildrenCoerced ==
  LET out == ceResult.props[kChildren]
  IN /\ ceResult.type = ceArgs.type
     /\ Len(out) = Len(ceArgs.children)
     /\ \A i \in 1..Len(out) :
           /\ IsElement(ceArgs.children[i]) => out[i] = ceArgs.children[i]
           /\ IsPrimitive(ceArgs.children[i]) =>
                out[i] = [type |-> TEXT_ELEMENT,
                          props |-> [k \in {kNodeValue, kChildren} |->
                                       IF k = kNodeValue THEN ceArgs.children[i] ELSE <<>>]]

(***************************************************************************)
(* C10.  Whenever a setter appends an action to the queue of a hook, the   *)
(* hook belongs to a fiber of the tree rooted at currentRoot.              *)
(***************************************************************************)
C10_SetterTargetsCurrentTree ==
  [][\A f \in 1..Len(fibers) : \A h \in 1..Len(fibers[f].hooks) :
        (/\ Len(fibers'[f].hooks) >= h
         /\ Len(fibers'[f].hooks[h].queue) > Len(fibers[f].hooks[h].queue)) =>
           f \in Tree(fibers, currentRoot)]_vars

(***************************************************************************)
(* C11.  A call of useState while no function component is being processed *)
(* faults and leaves the hooks list of every fiber, with the state and the *)
(* queue of every hook, as it was.                                         *)
(***************************************************************************)
C11_StrayUseStateFaults ==
  [][StrayUseState =>
       /\ lastUseState' = "fault"
       /\ \A f \in 1..Len(fibers) : fibers'[f].hooks = fibers[f].hooks]_vars

(***************************************************************************)
(* C12.  There is at most one wip root: every root fiber other than        *)
(* wipRoot was committed at some time or was overwritten.  A wip root is   *)
(* not currentRoot, its alternate is currentRoot, no fiber is in both the  *)
(* wip tree and the current tree, and every non-null alternate of a wip    *)
(* fiber is a fiber of the current tree.                                   *)
(***************************************************************************)
Roots == {f \in 1..Len(fibers) : fibers[f].parent = Null}

EverCommitted ==
  IF currentRoot = Null THEN {}
  ELSE {currentRoot} \cup
       {Alternates(fibers, currentRoot)[i] : i \in 1..Len(Alternates(fibers, currentRoot))}

C12_WipDistinctFromCurrent ==
  /\ Roots \ (abandoned \cup EverCommitted) = {wipRoot} \ {Null}
  /\ wipRoot # Null =>
        /\ wipRoot # currentRoot
        /\ fibers[wipRoot].alternate = currentRoot
        /\ Tree(fibers, wipRoot) \cap Tree(fibers, currentRoot) = {}
        /\ \A f \in Tree(fibers, wipRoot) :
              fibers[f].alternate # Null =>
                fibers[f].alternate \in Tree(fibers, currentRoot)

\* A re-render is half done: fibers of the wip tree have alternates
C12_Witness ==
  /\ wipRoot # Null
  /\ currentRoot # Null
  /\ nextUnitOfWork \notin {Null, wipRoot}
  /\ \E f \in Tree(fibers, wipRoot) \ {wipRoot} : fibers[f].alternate # Null

(***************************************************************************)
(* C13.  A wip root that render or a setter overwrote is never             *)
(* currentRoot, and no DOM node created for a PLACEMENT fiber of its tree  *)
(* is in the live DOM; the step that overwrites it puts the cursor on the  *)
(* new wip root, and every commit promotes the newest root fiber.          *)
(***************************************************************************)
MaxOf(S) == CHOOSE x \in S : \A y \in S : y <= x

AbandonedStaysOut ==
  \A r \in abandoned :
     /\ r # currentRoot
     /\ \A f \in Tree(fibers, r) :
           (fibers[f].effectTag = "PLACEMENT" /\ fibers[f].dom # Null) =>
              ~IsLive(nodes, fibers[f].dom)

C13_SupersededRenderDiscarded ==
  /\ []AbandonedStaysOut
  /\ [][abandoned' # abandoned =>
           /\ wipRoot' = Len(fibers')
           /\ wipRoot' > Len(fibers)
           /\ nextUnitOfWork' = wipRoot']_vars
  /\ [][currentRoot' # currentRoot => currentRoot' = MaxOf(Roots)]_vars

\* A render that created DOM nodes was overwritten, and a later one is committed
C13_Witness ==
  /\ Committed
  /\ \E r \in abandoned :
        /\ r < currentRoot
        /\ \E f \in Tree(fibers, r) :
              fibers[f].effectTag = "PLACEMENT" /\ fibers[f].dom # Null

(***************************************************************************)
(* C14.  At a commit, for every hook whose setter was invoked since the    *)
(* commit before, the state of the hook in the committed tree is the       *)
(* invoked actions applied in order to the state the hook had.  As first   *)
(* stated, the committed tree always holds the fiber that replaces the     *)
(* hook's fiber; as amended, the statement is about the commits whose tree *)
(* holds it.                                                               *)
(***************************************************************************)
Replaces(fs, f, id) == fs[f].alternate = id.fiber

HookReplayed(fs0, fs1, f, id) ==
  /\ Len(fs1[f].hooks) >= id.hook
  /\ fs1[f].hooks[id.hook].state =
       replay(invoked[id], fs0[id.fiber].hooks[id.hook].state)

C14_NoActionLost ==
  [][currentRoot' # currentRoot =>
       \A id \in DOMAIN invoked :
          \E f \in Tree(fibers', currentRoot') :
             Replaces(fibers', f, id) /\ HookReplayed(fibers, fibers', f, id)]_vars

C14_NoActionLostWhileMounted ==
  [][currentRoot' # currentRoot =>
       \A id \in DOMAIN invoked :
          \A f \in Tree(fibers', currentRoot') :
             Replaces(fibers', f, id) => HookReplayed(fibers, fibers', f, id)]_vars

\* Two clicks were committed at once, the second of them after the re-render
\* for the first had processed the component
C14_Witness ==
  /\ Committed
  /\ \E f \in Tree(fibers, currentRoot) :
        /\ fibers[f].type = "App"
        /\ fibers[f].alternate # Null
        /\ Len(fibers[fibers[f].alternate].hooks[1].queue) = 2
        /\ fibers[f].hooks[1].state =
             replay(fibers[fibers[f].alternate].hooks[1].queue,
                    fibers[fibers[f].alternate].hooks[1].state)
        /\ \E r \in abandoned : \E g \in Tree(fibers, r) :
              /\ fibers[g].alternate = fibers[f].alternate
              /\ Len(fibers[g].hooks) = 1

(***************************************************************************)
(* C15.  Whenever the cursor is non-null, wipRoot is non-null and the      *)
(* cursor is a fiber of the tree rooted at wipRoot; between the turns of   *)
(* the work loop the engine is never left with a null cursor and a         *)
(* non-null wipRoot.                                                       *)
(***************************************************************************)
Working == nextUnitOfWork # Null

ReadyToCommit == nextUnitOfWork = Null /\ wipRoot # Null

C15_SchedulerStates ==
  /\ Working => (wipRoot # Null /\ nextUnitOfWork \in Tree(fibers, wipRoot))
  /\ pc = "idle" => ~ReadyToCommit

\* A turn has yielded in the middle of a render
C15_Witness ==
  /\ pc = "idle"
  /\ Working
  /\ nextUnitOfWork # wipRoot
  /\ shouldYield

(***************************************************************************)
(* C16.  The step that processes fiber p reconciles the elements of p      *)
(* against the child chain of p's alternate, position by position: p gets  *)
(* a chain of one new fiber per element, in order, with the element's type *)
(* and props; the fiber is UPDATE with the dom of the old fiber and the    *)
(* old fiber as alternate where the old fiber at its position has its      *)
(* type, and PLACEMENT with no dom and no alternate otherwise; every other *)
(* old fiber is tagged DELETION and appended to deletions, once, in order. *)
(***************************************************************************)
\* The elements reconcileChildren is called with for a fiber (lines 214, 229)
elementsFor(S, fiber) ==
  IF S.fibers[fiber].type \in FunctionComponents
    THEN <<callComponent([S EXCEPT !.wipFiber = fiber, !.hookIndex = 0,
                                   !.fibers[fiber].hooks = <<>>],
                         S.fibers[fiber].type, S.fibers[fiber].props).ret>>
    ELSE flat(S.fibers[fiber].props[kChildren])

OldChain(fs, p) ==
  IF fs[p].alternate = Null THEN <<>> ELSE ChildSeq(fs, fs[p].alternate)

Matched(fs, os, es, i) ==
  i <= Len(os) /\ i <= Len(es) /\ fs[os[i]].type = es[i].type

Reconciled(fs0, fs1, p, es, dels0, dels1) ==
  LET os == OldChain(fs0, p)
      cs == ChildSeq(fs1, p)
      gone == SelectSeq([j \in 1..Len(os) |-> j], LAMBDA j : ~Matched(fs0, os, es, j))
  IN /\ Len(cs) = Len(es)
     /\ \A i \in 1..Len(cs) :
           /\ cs[i] > Len(fs0)
           /\ fs1[cs[i]].type = es[i].type
           /\ fs1[cs[i]].props = es[i].props
           /\ fs1[cs[i]].parent = p
           /\ IF Matched(fs0, os, es, i)
                THEN /\ fs1[cs[i]].effectTag = "UPDATE"
                     /\ fs1[cs[i]].dom = fs0[os[i]].dom
                     /\ fs1[cs[i]].alternate = os[i]
                ELSE /\ fs1[cs[i]].effectTag = "PLACEMENT"
                     /\ fs1[cs[i]].dom = Null
                     /\ fs1[cs[i]].alternate = Null
     /\ \A j \in 1..Len(gone) : fs1[os[gone[j]]].effectTag = "DELETION"
     /\ dels1 = dels0 \o [j \in 1..Len(gone) |-> os[gone[j]]]
     /\ Len(fs1) = Len(fs0) + Len(es)

C16_ReconcileByPosition ==
  [][visited' = Append(visited, nextUnitOfWork) =>
       Reconciled(fibers, fibers', nextUnitOfWork, elementsFor(Pack, nextUnitOfWork),
                  deletions, deletions')]_vars

\* A fiber of the wip tree has been reconciled: one child reuses the old
\* fiber at its position and another old fiber of the chain is in deletions
C16_Witness ==
  /\ wipRoot # Null
  /\ \E p \in Tree(fibers, wipRoot) :
        /\ fibers[p].alternate # Null
        /\ \E i \in 1..Len(ChildSeq(fibers, p)) :
              fibers[ChildSeq(fibers, p)[i]].effectTag = "UPDATE"
        /\ \E i \in 1..Len(OldChain(fibers, p)) : \E d \in 1..Len(deletions) :
              /\ deletions[d] = OldChain(fibers, p)[i]
              /\ fibers[deletions[d]].effectTag = "DELETION"

(***************************************************************************)
(* C17.  The fibers performUnitOfWork has been called on since the render  *)
(* was triggered are an initial part of the wip tree in depth-first        *)
(* pre-order, the cursor is the fiber that follows them in that order, and *)
(* it is null exactly when there is none; the committed tree has been      *)
(* visited in exactly that order, every fiber once.                        *)
(***************************************************************************)
RECURSIVE PreOrder(_, _)
PreOrder(fs, f) ==
  IF f = Null THEN <<>>
  ELSE <<f>> \o PreOrder(fs, fs[f].child) \o PreOrder(fs, fs[f].sibling)

C17_PreOrderVisit ==
  /\ wipRoot # Null =>
        LET po == PreOrder(fibers, wipRoot)
        IN /\ Len(visited) <= Len(po)
           /\ visited = SubSeq(po, 1, Len(visited))
           /\ nextUnitOfWork =
                (IF Len(visited) < Len(po) THEN po[Len(visited) + 1] ELSE Null)
  /\ (wipRoot = Null /\ currentRoot # Null) =>
        visited = PreOrder(fibers, currentRoot)

\* A tree in which the walk had to climb back to a sibling of a parent has
\* been processed to its end
C17_Witness ==
  /\ wipRoot # Null
  /\ nextUnitOfWork = Null
  /\ Len(visited) >= 5
  /\ \E f \in Tree(fibers, wipRoot) :
        fibers[f].child # Null /\ fibers[f].sibling # Null

(***************************************************************************)
(* C18.  A turn starts with the yield flag down, so with a non-null cursor *)
(* its first step processes a fiber whatever the deadline says; the        *)
(* deadline is read at the end of a unit, and once it has signalled yield  *)
(* the turn processes no further fiber, so a deadline that always signals  *)
(* yield gives one fiber per turn; a turn that finds the cursor null and a *)
(* wip root commits it before it ends, whatever the yield flag.            *)
(***************************************************************************)
InTurn == pc = "loop"

UnitDone == visited' = Append(visited, nextUnitOfWork)

C18_YieldOnlyBetweenUnits ==
  /\ [][(pc = "idle" /\ InTurn') => ~shouldYield']_vars
  /\ [][(InTurn /\ nextUnitOfWork # Null /\ ~shouldYield) => (UnitDone /\ InTurn')]_vars
  /\ [][(InTurn /\ shouldYield) => (~InTurn' /\ visited' = visited)]_vars
  /\ [][(InTurn /\ nextUnitOfWork = Null /\ wipRoot # Null) =>
           (~InTurn' /\ currentRoot' = wipRoot /\ wipRoot' = Null)]_vars

\* A turn processed the last fiber, was told to yield, and committed
C18_Witness ==
  /\ Committed
  /\ shouldYield
  /\ visited # <<>>

(***************************************************************************)
(* C19.  After a commit, the node of every PLACEMENT fiber that owns one   *)
(* has been appended, once, to the node of the nearest ancestor fiber that *)
(* owns one; function-component fibers own none, the root fiber owns the   *)
(* container, so every fiber below the root has such an ancestor; and      *)
(* every host operation of the render was on the node of a fiber: there    *)
(* are as many appendChild calls as PLACEMENT fibers with a node.          *)
(***************************************************************************)
RECURSIVE HostAncestor(_, _)
HostAncestor(fs, f) ==
  IF fs[f].parent = Null THEN Null
  ELSE IF fs[fs[f].parent].dom # Null THEN fs[f].parent
  ELSE HostAncestor(fs, fs[f].parent)

Placed(fs, root) ==
  {f \in Tree(fs, root) : fs[f].effectTag = "PLACEMENT" /\ fs[f].dom # Null}

C19_PlacementUnderHostAncestor ==
  Committed =>
    /\ fibers[currentRoot].dom = Container
    /\ \A f \in Tree(fibers, currentRoot) \ {currentRoot} :
          /\ HostAncestor(fibers, f) # Null
          /\ fibers[f].type \in FunctionComponents => fibers[f].dom = Null
    /\ \A f \in Placed(fibers, currentRoot) :
          /\ Count("appendChild", fibers[f].dom) = 1
          /\ nodes[fibers[f].dom].parent = fibers[HostAncestor(fibers, f)].dom
    /\ BagCardinality([o \in OpsOfKind({"appendChild"}) |-> CopiesIn(o, ops)])
          = Cardinality(Placed(fibers, currentRoot))
    /\ \A o \in BagToSet(ops) :
          \E f \in Tree(fibers, currentRoot) : fibers[f].dom = o.node

\* The node of a fiber placed below a function component hangs under the
\* node of the component's parent
C19_Witness ==
  /\ Committed
  /\ \E f \in Placed(fibers, currentRoot) :
        /\ fibers[fibers[f].parent].type \in FunctionComponents
        /\ HostAncestor(fibers, f) # currentRoot
        /\ nodes[fibers[f].dom].parent = fibers[HostAncestor(fibers, f)].dom

(***************************************************************************)
(* C20.  Every step that installs a wip root empties deletions, and it is  *)
(* empty until the first fiber of the render is processed; processing a    *)
(* fiber only appends to it.  From a commit to the next trigger, deletions *)
(* holds, once each, exactly the fibers of the tree that was current       *)
(* during the render that the committed tree did not replace.              *)
(***************************************************************************)
NoDuplicates(seq) == \A i, j \in 1..Len(seq) : seq[i] = seq[j] => i = j

IsPrefix(a, b) == Len(a) <= Len(b) /\ a = SubSeq(b, 1, Len(a))

\* The children of the alternates of the fibers of a tree that no fiber of the
\* tree has as its alternate
Unreplaced(fs, root) ==
  {o \in 1..Len(fs) :
     /\ \E p \in Tree(fs, root) :
           \E i \in 1..Len(OldChain(fs, p)) : OldChain(fs, p)[i] = o
     /\ \A c \in Tree(fs, root) : fs[c].alternate # o}

DeletionsOfThisRender ==
  /\ (wipRoot # Null /\ visited = <<>>) => deletions = <<>>
  /\ (wipRoot = Null /\ currentRoot # Null) =>
        /\ NoDuplicates(deletions)
        /\ {deletions[i] : i \in 1..Len(deletions)} = Unreplaced(fibers, currentRoot)
        /\ \A i \in 1..Len(deletions) :
              /\ fibers[deletions[i]].effectTag = "DELETION"
              /\ deletions[i] \in Tree(fibers, fibers[currentRoot].alternate)

C20_DeletionsResetPerRender ==
  /\ []DeletionsOfThisRender
  /\ [][(wipRoot' # wipRoot /\ wipRoot' # Null) => deletions' = <<>>]_vars
  /\ [][deletions' # deletions =>
           \/ deletions' = <<>> /\ wipRoot' # wipRoot
           \/ UnitDone /\ IsPrefix(deletions, deletions')]_vars

\* A render that had collected deletions was overwritten; the committed
\* render collected the same old fibers again, each once
C20_Witness ==
  /\ Committed
  /\ Len(deletions) = 2
  /\ \E r \in abandoned :
        /\ fibers[r].alternate = fibers[currentRoot].alternate
        /\ \E f \in Tree(fibers, r) : \E i \in 1..Len(deletions) :
              /\ fibers[f].alternate # Null
              /\ deletions[i] \in
                   {OldChain(fibers, f)[j] : j \in 1..Len(OldChain(fibers, f))}
              /\ deletions[i] \in Unreplaced(fibers, r)

(***************************************************************************)
(* C21.  After a commit, the listeners registered on every node of the     *)
(* live DOM are exactly the handlers of the event props of the committed   *)
(* fiber that owns the node, one per prop: a handler that no committed     *)
(* fiber has is not registered on any live node.                           *)
(***************************************************************************)
EventKeys(props) == {k \in DOMAIN props : isEvent(k)}

\* The listeners that the props of the committed fibers give node n
CommittedListeners(n) ==
  UNION {listenersOf(fibers[f].props, EventKeys(fibers[f].props)) :
           f \in {g \in Tree(fibers, currentRoot) \ {currentRoot} : fibers[g].dom = n}}

C21_ListenersMatchCommittedProps ==
  Committed =>
    \A n \in LiveNodes(nodes) \ {Container} :
       nodes[n].listeners = CommittedListeners(n)

(***************************************************************************)
(* C22.  The commit that follows a render(element, container) call         *)
(* promotes a root fiber whose props.children is [element], whatever       *)
(* setters were invoked between the call and the commit.                   *)
(***************************************************************************)
C22_RenderRequestCommitted ==
  [][(currentRoot' # currentRoot /\ requested # <<>>) =>
        fibers'[currentRoot'].props[kChildren] = requested]_vars

=============================================================================
